---- MODULE Spec2Model ----
(***************************************************************************)
(* Model of backend/app.py: the in-memory session map of the escape-room   *)
(* game and its four request handlers (new_game, get_game_state,           *)
(* solve_puzzle, get_hint).                                                *)
(*                                                                         *)
(* Strings that the code inspects (session ids, submitted solutions) are   *)
(* sequences of one-character strings; strings the code only passes on     *)
(* (descriptions, messages) are TLA+ strings.  Time is counted in ticks,   *)
(* TicksPerSecond ticks to the second, so that time.time() has a           *)
(* fractional part.                                                        *)
(***************************************************************************)
EXTENDS Integers, Sequences, FiniteSets, TLC

VARIABLES
    now,          \* the wall clock, time.time(), in ticks
    game_states,  \* dict: session id -> session record
    resp,         \* the response of the last request that was handled atomically
    threads,      \* the requests in flight, one per worker thread
    snap          \* game_states when the requests in flight were accepted

vars == <<now, game_states, resp, threads, snap>>

----------------------------------------------------------------------------
(* Bounds of the model *)

TicksPerSecond == 2

MaxSessions == 2

MaxHints == 1

----------------------------------------------------------------------------
(* Python's dict and str operations *)

\* d[k] = v
SetKey(d, k, v) == [x \in DOMAIN d \cup {k} |-> IF x = k THEN v ELSE d[x]]

\* d.get(k, default)
Get(d, k, default) == IF k \in DOMAIN d THEN d[k] ELSE default

UpperCase == <<"A","B","C","D","E","F","G","H","I","J","K","L","M",
               "N","O","P","Q","R","S","T","U","V","W","X","Y","Z">>

LowerCase == <<"a","b","c","d","e","f","g","h","i","j","k","l","m",
               "n","o","p","q","r","s","t","u","v","w","x","y","z">>

\* the lower-case letter of every upper-case letter
ToLower ==
    [c \in {UpperCase[i] : i \in DOMAIN UpperCase} |->
        LowerCase[CHOOSE i \in DOMAIN UpperCase : UpperCase[i] = c]]

\* str.lower() on one character of the ASCII range: upper-case letters map to
\* lower case, every other character to itself
lower_char(c) == IF c \in DOMAIN ToLower THEN ToLower[c] ELSE c

\* str.lower()
lower(s) == [i \in DOMAIN s |-> lower_char(s[i])]

Digits == <<"0","1","2","3","4","5","6","7","8","9">>

\* str(n) for an integer n >= 0: its decimal digits
RECURSIVE str(_)
str(n) == IF n < 10 THEN <<Digits[n + 1]>>
          ELSE Append(str(n \div 10), Digits[(n % 10) + 1])

\* int(t) for a time t >= 0 in ticks: whole seconds, the fraction dropped
int(t) == t \div TicksPerSecond

----------------------------------------------------------------------------
(* GAME_CONFIG *)

TIME_LIMIT == 30 * 60

\* time_limit in ticks
LimitTicks == TIME_LIMIT * TicksPerSecond

\* GAME_CONFIG["puzzles"], in the dict's iteration order
PuzzleOrder == <<"safe", "bookshelf", "computer", "door">>

PuzzleIds == {PuzzleOrder[i] : i \in DOMAIN PuzzleOrder}

\* GAME_CONFIG["items"], in the dict's iteration order
ItemOrder == <<"key", "note", "usb_drive">>

ItemIds == {ItemOrder[i] : i \in DOMAIN ItemOrder}

Solution ==
    [safe      |-> <<"1","2","3","4">>,
     bookshelf |-> <<"r","e","d",",","b","l","u","e",",","g","r","e","e","n">>,
     computer  |-> <<"p","a","s","s","w","o","r","d">>]

PuzzleDescription ==
    [safe      |-> "A locked safe with a 4-digit combination.",
     bookshelf |-> "A bookshelf with colored books that need to be arranged.",
     computer  |-> "A locked computer that needs a password.",
     door      |-> "The exit door. Requires all other puzzles to be solved."]

\* GAME_CONFIG["puzzles"]["door"]["requires"]
Requires == <<"safe", "bookshelf", "computer">>

ItemLocation == [key |-> "safe", note |-> "bookshelf", usb_drive |-> "computer"]

ItemDescription ==
    [key       |-> "A small golden key.",
     note      |-> "A handwritten note with a clue.",
     usb_drive |-> "A USB drive with important data."]

Placeholder == "???"

Hints ==
    [safe      |-> "Look for a 4-digit code hidden in the room. Maybe check the bookshelf?",
     bookshelf |-> "The colors need to be arranged in a specific order. Look for a pattern elsewhere.",
     computer  |-> "The password might be written down somewhere. Have you checked all items?",
     door      |-> "You need to solve all other puzzles first."]

----------------------------------------------------------------------------
(* Inputs of the requests *)

\* the instants at which requests arrive: the start, a fraction of a second
\* later (the same clock second), the time limit after the start, and a
\* fraction of a second after that
TimePoints == {0, 1, LimitTicks, LimitTicks + 1}

UnknownSession == <<"n","o","n","e">>

RequestSessionIds == {str(int(t)) : t \in TimePoints} \cup {UnknownSession}

UnknownPuzzle == "window"

RequestPuzzleIds == PuzzleIds \cup {UnknownPuzzle}

\* request.json["solution"]: a solution as configured and two that differ from
\* the configured one in letter case; each is a wrong answer to the other puzzles
Attempts ==
    { Solution.safe,
      <<"P","A","S","S","W","O","R","D">>,
      <<"R","e","d",",","b","l","u","e",",","G","R","E","E","N">> }

----------------------------------------------------------------------------
(* The handlers as functions of the session record *)

create_new_game_state(t) ==
    [start_time |-> t,
     puzzles    |-> [k \in PuzzleIds |-> [solved |-> FALSE]],
     items      |-> [k \in ItemIds |-> [found |-> FALSE]],
     hints_used |-> 0,
     completed  |-> FALSE]

Max(a, b) == IF a >= b THEN a ELSE b

\* time_remaining = max(0, GAME_CONFIG["time_limit"] - elapsed_time), in ticks
TimeRemaining(state, t) == Max(0, LimitTicks - (t - state.start_time))

\* mutant of TimesUp: "<" for "<="
TimesUp_Strict(state, t) == TimeRemaining(state, t) < 0 /\ ~state.completed

\* "if time_remaining <= 0 and not state['completed']"
TimesUp(state, t) == TimeRemaining(state, t) <= 0 /\ ~state.completed

\* mutant of ViewOf: looking at the state counts as a hint
ViewOf_CountsHint(state, t) ==
    LET timed == IF TimesUp(state, t)
                 THEN SetKey(SetKey(state, "completed", TRUE), "success", FALSE)
                 ELSE state
        after == [timed EXCEPT !.hints_used = @ + 1]
    IN [state |-> after,
        resp  |-> [code |-> 200,
                   time_remaining |-> int(TimeRemaining(state, t)),
                   puzzles |-> [k \in PuzzleIds |->
                                  [solved |-> after.puzzles[k].solved,
                                   description |-> PuzzleDescription[k]]],
                   items |-> [k \in ItemIds |->
                                  [found |-> after.items[k].found,
                                   description |-> IF after.items[k].found
                                                   THEN ItemDescription[k]
                                                   ELSE Placeholder]],
                   hints_used |-> after.hints_used,
                   completed |-> after.completed,
                   success |-> Get(after, "success", FALSE)]]

\* mutant of ViewOf: every item is shown with its configured description
ViewOf_Leaks(state, t) ==
    LET after == IF TimesUp(state, t)
                 THEN SetKey(SetKey(state, "completed", TRUE), "success", FALSE)
                 ELSE state
    IN [state |-> after,
        resp  |-> [code |-> 200,
                   time_remaining |-> int(TimeRemaining(state, t)),
                   puzzles |-> [k \in PuzzleIds |->
                                  [solved |-> after.puzzles[k].solved,
                                   description |-> PuzzleDescription[k]]],
                   items |-> [k \in ItemIds |->
                                  [found |-> after.items[k].found,
                                   description |-> ItemDescription[k]]],
                   hints_used |-> after.hints_used,
                   completed |-> after.completed,
                   success |-> Get(after, "success", FALSE)]]

\* the body of get_game_state for an existing session: the record after the
\* call and the response
ViewOf(state, t) ==
    LET after == IF TimesUp(state, t)
                 THEN SetKey(SetKey(state, "completed", TRUE), "success", FALSE)
                 ELSE state
    IN [state |-> after,
        resp  |-> [code |-> 200,
                   time_remaining |-> int(TimeRemaining(state, t)),
                   puzzles |-> [k \in PuzzleIds |->
                                  [solved |-> after.puzzles[k].solved,
                                   description |-> PuzzleDescription[k]]],
                   items |-> [k \in ItemIds |->
                                  [found |-> after.items[k].found,
                                   description |-> IF after.items[k].found
                                                   THEN ItemDescription[k]
                                                   ELSE Placeholder]],
                   hints_used |-> after.hints_used,
                   completed |-> after.completed,
                   success |-> Get(after, "success", FALSE)]]

\* mutant of all_solved: any() for all()
any_solved(state) == \E i \in DOMAIN Requires : state.puzzles[Requires[i]].solved

\* all(state["puzzles"][p]["solved"] for p in required_puzzles)
all_solved(state) == \A i \in DOMAIN Requires : state.puzzles[Requires[i]].solved

\* mutant of Matches: the strings compared as they are
Matches_CaseSensitive(solution_attempt, correct_solution) ==
    solution_attempt = correct_solution

\* "solution_attempt.lower() == correct_solution.lower()"
Matches(solution_attempt, correct_solution) ==
    lower(solution_attempt) = lower(correct_solution)

\* mutant of Revealable: the location of the item is not compared
Revealable_AnyLocation(state, puzzle_id) ==
    {i \in DOMAIN ItemOrder : ~state.items[ItemOrder[i]].found}

\* the items the loop of solve_puzzle stops at: located at the puzzle, not found
Revealable(state, puzzle_id) ==
    {i \in DOMAIN ItemOrder : /\ ItemLocation[ItemOrder[i]] = puzzle_id
                              /\ ~state.items[ItemOrder[i]].found}

Least(S) == CHOOSE i \in S : \A j \in S : i <= j

\* mutant of SolveDoor: state["completed"] is not set
SolveDoor_StaysActive(state) ==
    IF all_solved(state)
    THEN [state |-> SetKey([state EXCEPT !.puzzles["door"].solved = TRUE],
                           "success", TRUE),
          resp  |-> [code |-> 200, success |-> TRUE,
                     message |-> <<"Congratulations! You've escaped the room!">>,
                     game_completed |-> TRUE]]
    ELSE [state |-> state,
          resp  |-> [code |-> 200, success |-> FALSE,
                     message |-> <<"You need to solve all puzzles before opening the door.">>]]

\* mutant of SolveDoor: state["success"] is not written
SolveDoor_NoSuccess(state) ==
    IF all_solved(state)
    THEN [state |-> SetKey([state EXCEPT !.puzzles["door"].solved = TRUE],
                           "completed", TRUE),
          resp  |-> [code |-> 200, success |-> TRUE,
                     message |-> <<"Congratulations! You've escaped the room!">>,
                     game_completed |-> TRUE]]
    ELSE [state |-> state,
          resp  |-> [code |-> 200, success |-> FALSE,
                     message |-> <<"You need to solve all puzzles before opening the door.">>]]

\* the door branch of solve_puzzle
SolveDoor(state) ==
    IF all_solved(state)
    THEN [state |-> SetKey(SetKey([state EXCEPT !.puzzles["door"].solved = TRUE],
                                  "completed", TRUE), "success", TRUE),
          resp  |-> [code |-> 200, success |-> TRUE,
                     message |-> <<"Congratulations! You've escaped the room!">>,
                     game_completed |-> TRUE]]
    ELSE [state |-> state,
          resp  |-> [code |-> 200, success |-> FALSE,
                     message |-> <<"You need to solve all puzzles before opening the door.">>]]

\* mutant of SolveOther: a text that does not match costs a hint
SolveOther_PenaltyOnMiss(state, puzzle_id, solution_attempt) ==
    IF Matches(solution_attempt, Solution[puzzle_id])
    THEN LET solved == [state EXCEPT !.puzzles[puzzle_id].solved = TRUE]
             found  == Revealable(solved, puzzle_id)
         IN IF found # {}
            THEN LET item_id == ItemOrder[Least(found)]
                 IN [state |-> [solved EXCEPT !.items[item_id].found = TRUE],
                     resp  |-> [code |-> 200, success |-> TRUE,
                                message |-> <<"Puzzle solved! You found: ",
                                              ItemDescription[item_id]>>,
                                item_found |-> item_id]]
            ELSE [state |-> solved,
                  resp  |-> [code |-> 200, success |-> TRUE,
                             message |-> <<"Puzzle solved!">>]]
    ELSE [state |-> [state EXCEPT !.hints_used = MaxHints],
          resp  |-> [code |-> 200, success |-> FALSE,
                     message |-> <<"Incorrect solution. Try again.">>]]

\* the branch of solve_puzzle for the other puzzles
SolveOther(state, puzzle_id, solution_attempt) ==
    IF Matches(solution_attempt, Solution[puzzle_id])
    THEN LET solved == [state EXCEPT !.puzzles[puzzle_id].solved = TRUE]
             found  == Revealable(solved, puzzle_id)
         IN IF found # {}
            THEN LET item_id == ItemOrder[Least(found)]
                 IN [state |-> [solved EXCEPT !.items[item_id].found = TRUE],
                     resp  |-> [code |-> 200, success |-> TRUE,
                                message |-> <<"Puzzle solved! You found: ",
                                              ItemDescription[item_id]>>,
                                item_found |-> item_id]]
            ELSE [state |-> solved,
                  resp  |-> [code |-> 200, success |-> TRUE,
                             message |-> <<"Puzzle solved!">>]]
    ELSE [state |-> state,
          resp  |-> [code |-> 200, success |-> FALSE,
                     message |-> <<"Incorrect solution. Try again.">>]]

\* mutant of SolveOf: the check of state["completed"] is left out
SolveOf_NoCompletedCheck(state, puzzle_id, solution_attempt) ==
    IF state.puzzles[puzzle_id].solved
    THEN [state |-> state,
          resp  |-> [code |-> 400, error |-> "Puzzle already solved"]]
    ELSE IF puzzle_id = "door"
    THEN SolveDoor(state)
    ELSE SolveOther(state, puzzle_id, solution_attempt)

\* the body of solve_puzzle for an existing session and puzzle
SolveOf(state, puzzle_id, solution_attempt) ==
    IF state.completed
    THEN [state |-> state,
          resp  |-> [code |-> 400, error |-> "Game already completed"]]
    ELSE IF state.puzzles[puzzle_id].solved
    THEN [state |-> state,
          resp  |-> [code |-> 400, error |-> "Puzzle already solved"]]
    ELSE IF puzzle_id = "door"
    THEN SolveDoor(state)
    ELSE SolveOther(state, puzzle_id, solution_attempt)

\* mutant of HintOf: a completed session gets no hint
HintOf_RejectsCompleted(state, puzzle_id) ==
    IF state.completed
    THEN [state |-> state,
          resp  |-> [code |-> 400, error |-> "Game already completed"]]
    ELSE LET after == [state EXCEPT !.hints_used = @ + 1]
         IN [state |-> after,
             resp  |-> [code |-> 200,
                        hint |-> Get(Hints, puzzle_id,
                                     "No hint available for this puzzle."),
                        hints_used |-> after.hints_used]]

\* the body of get_hint for an existing session and puzzle
HintOf(state, puzzle_id) ==
    LET after == [state EXCEPT !.hints_used = @ + 1]
    IN [state |-> after,
        resp  |-> [code |-> 200,
                   hint |-> Get(Hints, puzzle_id, "No hint available for this puzzle."),
                   hints_used |-> after.hints_used]]

SessionNotFound == [code |-> 404, error |-> "Game session not found"]

PuzzleNotFound == [code |-> 404, error |-> "Puzzle not found"]

----------------------------------------------------------------------------
(* The handlers as functions of the session map: the map after the request  *)
(* and the response                                                         *)

NewGameOf(gs, t) ==
    LET session_id == str(int(t))
    IN [gs   |-> SetKey(gs, session_id, create_new_game_state(t)),
        resp |-> [code |-> 200, session_id |-> session_id,
                  message |-> "New game started", time_limit |-> TIME_LIMIT]]

\* mutant of GetGameStateOf: an unknown session id gets a session of its own
GetGameStateOf_Autocreate(gs, session_id, t) ==
    LET before == IF session_id \in DOMAIN gs
                  THEN gs
                  ELSE SetKey(gs, session_id, create_new_game_state(t))
        r == ViewOf(before[session_id], t)
    IN [gs |-> SetKey(before, session_id, r.state), resp |-> r.resp]

GetGameStateOf(gs, session_id, t) ==
    IF session_id \notin DOMAIN gs
    THEN [gs |-> gs, resp |-> SessionNotFound]
    ELSE LET r == ViewOf(gs[session_id], t)
         IN [gs |-> [gs EXCEPT ![session_id] = r.state], resp |-> r.resp]

\* mutant of SolvePuzzleOf: the record is written under every session id
SolvePuzzleOf_AllSessions(gs, session_id, puzzle_id, solution_attempt) ==
    IF session_id \notin DOMAIN gs
    THEN [gs |-> gs, resp |-> SessionNotFound]
    ELSE IF puzzle_id \notin PuzzleIds
    THEN [gs |-> gs, resp |-> PuzzleNotFound]
    ELSE LET r == SolveOf(gs[session_id], puzzle_id, solution_attempt)
         IN [gs |-> [x \in DOMAIN gs |-> r.state], resp |-> r.resp]

SolvePuzzleOf(gs, session_id, puzzle_id, solution_attempt) ==
    IF session_id \notin DOMAIN gs
    THEN [gs |-> gs, resp |-> SessionNotFound]
    ELSE IF puzzle_id \notin PuzzleIds
    THEN [gs |-> gs, resp |-> PuzzleNotFound]
    ELSE LET r == SolveOf(gs[session_id], puzzle_id, solution_attempt)
         IN [gs |-> [gs EXCEPT ![session_id] = r.state], resp |-> r.resp]

\* mutant of GetHintOf: the puzzle id is not looked up
GetHintOf_NoPuzzleCheck(gs, session_id, puzzle_id) ==
    IF session_id \notin DOMAIN gs
    THEN [gs |-> gs, resp |-> SessionNotFound]
    ELSE LET r == HintOf(gs[session_id], puzzle_id)
         IN [gs |-> [gs EXCEPT ![session_id] = r.state], resp |-> r.resp]

GetHintOf(gs, session_id, puzzle_id) ==
    IF session_id \notin DOMAIN gs
    THEN [gs |-> gs, resp |-> SessionNotFound]
    ELSE IF puzzle_id \notin PuzzleIds
    THEN [gs |-> gs, resp |-> PuzzleNotFound]
    ELSE LET r == HintOf(gs[session_id], puzzle_id)
         IN [gs |-> [gs EXCEPT ![session_id] = r.state], resp |-> r.resp]

----------------------------------------------------------------------------
(* The state machine: every request is handled in one step *)

NoResponse == [code |-> 0]

Idle == [pc |-> "idle"]

Workers == {1, 2}

Init ==
    /\ now = 0
    /\ game_states = << >>
    /\ resp = NoResponse
    /\ threads = [w \in Workers |-> Idle]
    /\ snap = << >>

\* the clock moves on between requests
Tick ==
    /\ \E t \in TimePoints : t > now /\ now' = t
    /\ UNCHANGED <<game_states, resp, threads, snap>>

\* POST /api/game/new
new_game ==
    \E r \in {NewGameOf(game_states, now)} :
       /\ Cardinality(DOMAIN r.gs) <= MaxSessions
       /\ game_states' = r.gs
       /\ resp' = r.resp
       /\ UNCHANGED <<now, threads, snap>>

\* GET /api/game/state/<session_id>
get_game_state(session_id) ==
    \E r \in {GetGameStateOf(game_states, session_id, now)} :
       /\ game_states' = r.gs
       /\ resp' = r.resp
       /\ UNCHANGED <<now, threads, snap>>

\* POST /api/game/solve/<session_id>/<puzzle_id>
solve_puzzle(session_id, puzzle_id, solution_attempt) ==
    \E r \in {SolvePuzzleOf(game_states, session_id, puzzle_id, solution_attempt)} :
       /\ game_states' = r.gs
       /\ resp' = r.resp
       /\ UNCHANGED <<now, threads, snap>>

\* GET /api/game/hint/<session_id>/<puzzle_id>
get_hint(session_id, puzzle_id) ==
    \E r \in {GetHintOf(game_states, session_id, puzzle_id)} :
       /\ \A s \in DOMAIN r.gs : r.gs[s].hints_used <= MaxHints
       /\ game_states' = r.gs
       /\ resp' = r.resp
       /\ UNCHANGED <<now, threads, snap>>

Next ==
    \/ new_game
    \/ \E s \in RequestSessionIds : get_game_state(s)
    \/ \E s \in RequestSessionIds, p \in RequestPuzzleIds, a \in Attempts :
          solve_puzzle(s, p, a)
    \/ \E s \in RequestSessionIds, p \in RequestPuzzleIds : get_hint(s, p)
    \/ Tick

Spec == Init /\ [][Next]_vars

----------------------------------------------------------------------------
(* Requests in flight: the development server handles every request on a    *)
(* thread of its own, so two handlers interleave at their reads and writes  *)
(* of the session record.  Each step below is one such read or write.  The  *)
(* handler's local name "state" refers to game_states[session_id]: no       *)
(* session is created while a request is in flight here.                    *)

Request(op, session_id, puzzle_id, solution_attempt) ==
    [op |-> op, session_id |-> session_id, puzzle_id |-> puzzle_id,
     solution_attempt |-> solution_attempt]

\* the solve and hint requests for one session
MutatingRequests(session_id) ==
    {Request("solve", session_id, p, a) : p \in RequestPuzzleIds, a \in Attempts}
    \cup {Request("hint", session_id, p, << >>) : p \in RequestPuzzleIds}

\* the request handled in one step
Handle(gs, rq) ==
    IF rq.op = "solve"
    THEN SolvePuzzleOf(gs, rq.session_id, rq.puzzle_id, rq.solution_attempt)
    ELSE GetHintOf(gs, rq.session_id, rq.puzzle_id)

AllIdle == \A w \in Workers : threads[w].pc = "idle"

AllDone == \A w \in Workers : threads[w].pc = "done"

\* worker w moves to pc, with its loop index i
Goto(w, pc, i) == threads' = [threads EXCEPT ![w].pc = pc, ![w].i = i]

\* worker w returns r
Return(w, r) == threads' = [threads EXCEPT ![w].pc = "done", ![w].resp = r]

\* two requests for the same session arrive together
Accept ==
    /\ AllIdle
    /\ \E s \in RequestSessionIds :
         /\ s \in DOMAIN game_states => game_states[s].hints_used < MaxHints
         /\ \E rqs \in [Workers -> MutatingRequests(s)] :
               threads' = [w \in Workers |->
                              [pc |-> "lookup", rq |-> rqs[w], i |-> 0, tmp |-> 0,
                               resp |-> NoResponse]]
    /\ snap' = game_states
    /\ UNCHANGED <<now, game_states, resp>>

\* both responses are sent
Deliver ==
    /\ AllDone
    /\ threads' = [w \in Workers |-> Idle]
    /\ snap' = << >>
    /\ UNCHANGED <<now, game_states, resp>>

\* new_game between requests
NewGameQuiescent == AllIdle /\ new_game

\* "if session_id not in game_states", "if puzzle_id not in GAME_CONFIG[...]",
\* "state = game_states[session_id]"
Lookup(w) ==
    LET rq == threads[w].rq
    IN /\ threads[w].pc = "lookup"
       /\ IF rq.session_id \notin DOMAIN game_states
          THEN Return(w, SessionNotFound)
          ELSE IF rq.puzzle_id \notin PuzzleIds
          THEN Return(w, PuzzleNotFound)
          ELSE Goto(w, IF rq.op = "solve" THEN "check_completed" ELSE "hint_load", 0)
       /\ UNCHANGED <<now, game_states, resp, snap>>

\* "if state['completed']"
CheckCompleted(w) ==
    LET rq == threads[w].rq
    IN /\ threads[w].pc = "check_completed"
       /\ IF game_states[rq.session_id].completed
          THEN Return(w, [code |-> 400,
                          error |-> "Game already completed"])
          ELSE Goto(w, "check_solved", 0)
       /\ UNCHANGED <<now, game_states, resp, snap>>

\* "if state['puzzles'][puzzle_id]['solved']", then the branch on the door and
\* the comparison of the lower-cased strings
CheckSolved(w) ==
    LET rq == threads[w].rq
    IN /\ threads[w].pc = "check_solved"
       /\ IF game_states[rq.session_id].puzzles[rq.puzzle_id].solved
          THEN Return(w, [code |-> 400,
                          error |-> "Puzzle already solved"])
          ELSE IF rq.puzzle_id = "door"
          THEN Goto(w, "door_all", 1)
          ELSE IF Matches(rq.solution_attempt, Solution[rq.puzzle_id])
          THEN Goto(w, "write_solved", 0)
          ELSE Return(w, [code |-> 200, success |-> FALSE,
                          message |-> <<"Incorrect solution. Try again.">>])
       /\ UNCHANGED <<now, game_states, resp, snap>>

\* one read of all(...): state["puzzles"][p]["solved"] for the i-th required p
DoorAll(w) ==
    LET rq == threads[w].rq
        i  == threads[w].i
    IN /\ threads[w].pc = "door_all"
       /\ IF ~game_states[rq.session_id].puzzles[Requires[i]].solved
          THEN Return(w, [code |-> 200, success |-> FALSE,
                          message |-> <<"You need to solve all puzzles before opening the door.">>])
          ELSE IF i < Len(Requires)
          THEN Goto(w, "door_all", i + 1)
          ELSE Goto(w, "door_write_solved", 0)
       /\ UNCHANGED <<now, game_states, resp, snap>>

\* state["puzzles"]["door"]["solved"] = True
DoorWriteSolved(w) ==
    /\ threads[w].pc = "door_write_solved"
    /\ game_states' = [game_states EXCEPT
                          ![threads[w].rq.session_id].puzzles["door"].solved = TRUE]
    /\ Goto(w, "door_write_completed", 0)
    /\ UNCHANGED <<now, resp, snap>>

\* state["completed"] = True
DoorWriteCompleted(w) ==
    /\ threads[w].pc = "door_write_completed"
    /\ game_states' = [game_states EXCEPT ![threads[w].rq.session_id].completed = TRUE]
    /\ Goto(w, "door_write_success", 0)
    /\ UNCHANGED <<now, resp, snap>>

\* state["success"] = True, and the response
DoorWriteSuccess(w) ==
    /\ threads[w].pc = "door_write_success"
    /\ game_states' = [game_states EXCEPT
                          ![threads[w].rq.session_id] = SetKey(@, "success", TRUE)]
    /\ Return(w, [code |-> 200, success |-> TRUE,
                  message |-> <<"Congratulations! You've escaped the room!">>,
                  game_completed |-> TRUE])
    /\ UNCHANGED <<now, resp, snap>>

\* state["puzzles"][puzzle_id]["solved"] = True
WriteSolved(w) ==
    LET rq == threads[w].rq
    IN /\ threads[w].pc = "write_solved"
       /\ game_states' = [game_states EXCEPT
                             ![rq.session_id].puzzles[rq.puzzle_id].solved = TRUE]
       /\ Goto(w, "items", 1)
       /\ UNCHANGED <<now, resp, snap>>

\* one iteration of "for item_id, item in GAME_CONFIG['items'].items()": the
\* read of state["items"][item_id]["found"]
Items(w) ==
    LET rq == threads[w].rq
        i  == threads[w].i
    IN /\ threads[w].pc = "items"
       /\ IF i > Len(ItemOrder)
          THEN Return(w, [code |-> 200, success |-> TRUE,
                          message |-> <<"Puzzle solved!">>])
          ELSE IF /\ ItemLocation[ItemOrder[i]] = rq.puzzle_id
                  /\ ~game_states[rq.session_id].items[ItemOrder[i]].found
          THEN Goto(w, "write_found", i)
          ELSE Goto(w, "items", i + 1)
       /\ UNCHANGED <<now, game_states, resp, snap>>

\* state["items"][item_id]["found"] = True, and the response
WriteFound(w) ==
    LET rq      == threads[w].rq
        item_id == ItemOrder[threads[w].i]
    IN /\ threads[w].pc = "write_found"
       /\ game_states' = [game_states EXCEPT
                             ![rq.session_id].items[item_id].found = TRUE]
       /\ Return(w, [code |-> 200, success |-> TRUE,
                     message |-> <<"Puzzle solved! You found: ",
                                   ItemDescription[item_id]>>,
                     item_found |-> item_id])
       /\ UNCHANGED <<now, resp, snap>>

\* state["hints_used"] += 1: the load
HintLoad(w) ==
    /\ threads[w].pc = "hint_load"
    /\ threads' = [threads EXCEPT
                      ![w].pc = "hint_store",
                      ![w].tmp = game_states[threads[w].rq.session_id].hints_used]
    /\ UNCHANGED <<now, game_states, resp, snap>>

\* state["hints_used"] += 1: the store
HintStore(w) ==
    /\ threads[w].pc = "hint_store"
    /\ game_states' = [game_states EXCEPT
                          ![threads[w].rq.session_id].hints_used = threads[w].tmp + 1]
    /\ Goto(w, "hint_return", 0)
    /\ UNCHANGED <<now, resp, snap>>

\* the response, with its read of state["hints_used"]
HintReturn(w) ==
    LET rq == threads[w].rq
    IN /\ threads[w].pc = "hint_return"
       /\ Return(w, [code |-> 200,
                     hint |-> Get(Hints, rq.puzzle_id,
                                  "No hint available for this puzzle."),
                     hints_used |-> game_states[rq.session_id].hints_used])
       /\ UNCHANGED <<now, game_states, resp, snap>>

NextConcurrent ==
    \/ NewGameQuiescent
    \/ Accept
    \/ Deliver
    \/ \E w \in Workers : Lookup(w)
    \/ \E w \in Workers : CheckCompleted(w)
    \/ \E w \in Workers : CheckSolved(w)
    \/ \E w \in Workers : DoorAll(w)
    \/ \E w \in Workers : DoorWriteSolved(w)
    \/ \E w \in Workers : DoorWriteCompleted(w)
    \/ \E w \in Workers : DoorWriteSuccess(w)
    \/ \E w \in Workers : WriteSolved(w)
    \/ \E w \in Workers : Items(w)
    \/ \E w \in Workers : WriteFound(w)
    \/ \E w \in Workers : HintLoad(w)
    \/ \E w \in Workers : HintStore(w)
    \/ \E w \in Workers : HintReturn(w)

SpecConcurrent == Init /\ [][NextConcurrent]_vars

----------------------------------------------------------------------------
(* The two serial orders of the requests in flight *)

\* the map and the responses when worker first's request is handled, whole,
\* before worker second's
Serial(first, second) ==
    LET r1 == Handle(snap, threads[first].rq)
        r2 == Handle(r1.gs, threads[second].rq)
    IN [gs |-> r2.gs, resp |-> (first :> r1.resp) @@ (second :> r2.resp)]

\* the map and the responses the interleaved handlers produced
Outcome == [gs |-> game_states, resp |-> [w \in Workers |-> threads[w].resp]]

----------------------------------------------------------------------------
(* Properties *)

Sessions == DOMAIN game_states

\* state.get("success", False)
SuccessOf(state) == Get(state, "success", FALSE)

\* the time that has passed since the session was started, in ticks
Elapsed(s) == now - game_states[s].start_time

\* C1: every new_game returns a session id that no earlier new_game returned
\* (the ids returned so far are the keys of game_states: no key is ever
\* removed), so that no existing record is replaced.
C1_FreshSessionId == [][new_game => resp'.session_id \notin Sessions]_vars

\* C2: whatever requests are handled, a solved flag that is true under a session
\* id stays true under that session id.
C2_SolvedMonotonic ==
    [][\A s \in Sessions, p \in PuzzleIds :
          game_states[s].puzzles[p].solved => game_states'[s].puzzles[p].solved]_vars

\* C3: whatever requests are handled, a session that is completed stays
\* completed and keeps its success flag.
C3_CompletedTerminal ==
    [][\A s \in Sessions :
          game_states[s].completed =>
             /\ game_states'[s].completed
             /\ SuccessOf(game_states'[s]) = SuccessOf(game_states[s])]_vars

\* C4 as stated: for a session whose elapsed time exceeds the time limit, a
\* get_game_state reports time_remaining = 0, completed = true, success = false.
C4_TimeoutReportsFailure ==
    \A s \in Sessions :
       Elapsed(s) > LimitTicks =>
          LET view == GetGameStateOf(game_states, s, now).resp
          IN view.time_remaining = 0 /\ view.completed /\ ~view.success

\* C4 amended: for a session whose elapsed time exceeds the time limit, a
\* get_game_state reports time_remaining = 0 and completed = true, and it
\* reports success = false unless the door was solved in that session before,
\* in which case it reports success = true.
C4_TimeoutReportsCompleted ==
    \A s \in Sessions :
       Elapsed(s) > LimitTicks =>
          LET view == GetGameStateOf(game_states, s, now).resp
          IN /\ view.time_remaining = 0
             /\ view.completed
             /\ view.success = game_states[s].puzzles["door"].solved

\* C4 witness: get_game_state has answered for a session past its time limit
\* in which no puzzle was ever solved, and reported the timeout.
C4_Witness ==
    \E s \in Sessions :
       /\ Elapsed(s) > LimitTicks
       /\ \A p \in PuzzleIds : ~game_states[s].puzzles[p].solved
       /\ resp = GetGameStateOf(game_states, s, now).resp
       /\ resp.time_remaining = 0 /\ resp.completed /\ ~resp.success

AlreadyCompleted == [code |-> 400, error |-> "Game already completed"]

\* C5: in a completed session, solve_puzzle answers "already completed" for
\* every puzzle of the registry and every submitted text, and leaves the session
\* map as it is.  (A puzzle id that is not in the registry is answered "Puzzle
\* not found" before the record is read.)
C5_CompletedRejectsSolve ==
    \A s \in Sessions : game_states[s].completed =>
       \A p \in PuzzleIds, a \in Attempts :
          LET r == SolvePuzzleOf(game_states, s, p, a)
          IN r.resp = AlreadyCompleted /\ r.gs = game_states

\* C5 witness: solve_puzzle has rejected an attempt on a completed session.
C5_Witness ==
    /\ resp = AlreadyCompleted
    /\ \E s \in Sessions : game_states[s].completed

Prerequisites == {"safe", "bookshelf", "computer"}

\* C6: in every session, the door is solved only if safe, bookshelf and
\* computer are solved.
C6_DoorNeedsPrerequisites ==
    \A s \in Sessions :
       game_states[s].puzzles["door"].solved =>
          \A p \in Prerequisites : game_states[s].puzzles[p].solved

\* C6 witness: a session's door is solved.
C6_Witness == \E s \in Sessions : game_states[s].puzzles["door"].solved

\* C7: in a session that is not completed, solve_puzzle on the door returns
\* success = false and leaves the session not completed while one of safe,
\* bookshelf, computer is unsolved; it sets door.solved, completed and success
\* and returns success = true when all three are solved; the submitted text
\* makes no difference.
C7_DoorOutcome ==
    \A s \in Sessions : ~game_states[s].completed =>
       /\ \A a \in Attempts :
             LET r == SolvePuzzleOf(game_states, s, "door", a)
             IN IF \A p \in Prerequisites : game_states[s].puzzles[p].solved
                THEN /\ r.resp.code = 200 /\ r.resp.success
                     /\ r.gs[s].puzzles["door"].solved
                     /\ r.gs[s].completed
                     /\ SuccessOf(r.gs[s])
                ELSE /\ r.resp.code = 200 /\ ~r.resp.success
                     /\ ~r.gs[s].completed
                     /\ ~r.gs[s].puzzles["door"].solved
       /\ \A a, b \in Attempts :
             SolvePuzzleOf(game_states, s, "door", a)
                = SolvePuzzleOf(game_states, s, "door", b)

\* C7 witness: solve_puzzle has opened the door of a session.
C7_Witness ==
    /\ "game_completed" \in DOMAIN resp
    /\ resp.code = 200 /\ resp.success
    /\ \E s \in Sessions :
          /\ game_states[s].puzzles["door"].solved
          /\ game_states[s].completed /\ SuccessOf(game_states[s])

\* C8: when the two requests in flight have both returned, the session map and
\* the two responses are those of one of the two serial orders.
C8_Serializable == AllDone => Outcome \in {Serial(1, 2), Serial(2, 1)}


\* C9: get_hint for a session and a puzzle of the registry adds exactly 1 to
\* hints_used, whatever the counter is, and reports the new count; get_hint for
\* a puzzle id that is not in the registry answers "Puzzle not found" and
\* leaves hints_used as it is.
C9_HintCounts ==
    \A s \in Sessions :
       /\ \A p \in PuzzleIds :
             LET r == GetHintOf(game_states, s, p)
             IN /\ r.resp.code = 200 /\ r.resp.hint = Hints[p]
                /\ r.gs[s].hints_used = game_states[s].hints_used + 1
                /\ r.resp.hints_used = game_states[s].hints_used + 1
       /\ LET r == GetHintOf(game_states, s, UnknownPuzzle)
          IN /\ r.resp = PuzzleNotFound
             /\ r.gs[s].hints_used = game_states[s].hints_used

\* C9 witness: get_hint has answered a hint for a session and counted it.
C9_Witness ==
    /\ "hint" \in DOMAIN resp /\ resp.code = 200
    /\ \E s \in Sessions :
          game_states[s].hints_used >= 1 /\ resp.hints_used = game_states[s].hints_used

\* a and b are the same text up to the case of their letters
EqualUpToCase(a, b) ==
    /\ Len(a) = Len(b)
    /\ \A i \in 1..Len(a) :
          \/ a[i] = b[i]
          \/ \E j \in DOMAIN UpperCase : {a[i], b[i]} = {UpperCase[j], LowerCase[j]}

\* the item located at a puzzle
ItemAt(p) == CHOOSE k \in ItemIds : ItemLocation[k] = p

\* C10: in a session that is not completed, solve_puzzle on an unsolved puzzle
\* other than the door, with a text equal to the solution up to letter case,
\* sets the puzzle's solved flag, marks the item located at the puzzle as found
\* and names it in the response; a get_game_state after it shows the item with
\* found = true and its configured description.
C10_SolveRevealsItem ==
    \A s \in Sessions, p \in PuzzleIds \ {"door"}, a \in Attempts :
       ( /\ ~game_states[s].completed
         /\ ~game_states[s].puzzles[p].solved
         /\ EqualUpToCase(a, Solution[p]) ) =>
          LET r == SolvePuzzleOf(game_states, s, p, a)
          IN /\ r.resp.code = 200 /\ r.resp.success
             /\ r.resp.item_found = ItemAt(p)
             /\ r.gs[s].puzzles[p].solved
             /\ r.gs[s].items[ItemAt(p)].found
             /\ \A t \in TimePoints : t >= now =>
                   GetGameStateOf(r.gs, s, t).resp.items[ItemAt(p)]
                      = [found |-> TRUE, description |-> ItemDescription[ItemAt(p)]]

\* C10 witness: solve_puzzle has accepted a text for the computer (the only
\* matching text submitted, "PASSWORD", differs from the solution in case) and
\* named the item it revealed.
C10_Witness ==
    /\ "item_found" \in DOMAIN resp
    /\ resp.code = 200 /\ resp.item_found = "usb_drive"
    /\ \E s \in Sessions :
          /\ game_states[s].puzzles["computer"].solved
          /\ game_states[s].items["usb_drive"].found

\* C11: a get_game_state response shows every item that is not found in the
\* session with the placeholder and not with its configured description; so
\* does every response that get_game_state has sent.
C11_UnfoundItemsHidden ==
    /\ \A s \in Sessions :
          LET view == GetGameStateOf(game_states, s, now).resp
          IN \A k \in ItemIds : ~game_states[s].items[k].found =>
                /\ ~view.items[k].found
                /\ view.items[k].description = "???"
                /\ view.items[k].description # ItemDescription[k]
    /\ "items" \in DOMAIN resp =>
          \A k \in ItemIds : ~resp.items[k].found =>
             resp.items[k].description = "???"

\* C11 witness: get_game_state has answered for a session with one item found
\* and another not found, and hidden the latter's description.
C11_Witness ==
    /\ "items" \in DOMAIN resp
    /\ resp.items["key"].found /\ resp.items["key"].description = ItemDescription["key"]
    /\ ~resp.items["note"].found /\ resp.items["note"].description = "???"

\* the map after has, under every session id of the map before other than s,
\* the record it had before
OthersUnchanged(before, after, s) ==
    \A o \in DOMAIN before \ {s} : o \in DOMAIN after /\ after[o] = before[o]

\* C12: get_game_state, solve_puzzle and get_hint for a session id leave the
\* record of every other session id as it is, whatever the puzzle id and the
\* text; new_game leaves the record of every session id other than the one it
\* returns as it is.
C12_OtherSessionsUnchanged ==
    /\ \A s \in RequestSessionIds :
          /\ OthersUnchanged(game_states, GetGameStateOf(game_states, s, now).gs, s)
          /\ \A p \in RequestPuzzleIds :
                /\ OthersUnchanged(game_states, GetHintOf(game_states, s, p).gs, s)
                /\ \A a \in Attempts :
                      OthersUnchanged(game_states,
                                      SolvePuzzleOf(game_states, s, p, a).gs, s)
    /\ LET r == NewGameOf(game_states, now)
       IN OthersUnchanged(game_states, r.gs, r.resp.session_id)

\* C12 witness: solve_puzzle has solved a puzzle in one of two sessions, and
\* the other session is as it was created.
C12_Witness ==
    /\ "item_found" \in DOMAIN resp
    /\ \E s, o \in Sessions :
          /\ s # o
          /\ \E p \in PuzzleIds : game_states[s].puzzles[p].solved
          /\ game_states[o] = create_new_game_state(game_states[o].start_time)

\* C13: with a session id that is not in the map, get_game_state, solve_puzzle
\* and get_hint answer 404 "Game session not found"; with a session id of the
\* map and a puzzle id that is not in the registry, solve_puzzle and get_hint
\* answer 404 "Puzzle not found"; the map after is the map before in all five.
C13_NotFound ==
    /\ \A s \in RequestSessionIds \ Sessions :
          LET v == GetGameStateOf(game_states, s, now)
          IN /\ v.resp = [code |-> 404, error |-> "Game session not found"]
             /\ v.gs = game_states
             /\ \A p \in RequestPuzzleIds :
                   LET h == GetHintOf(game_states, s, p)
                   IN /\ h.resp = [code |-> 404, error |-> "Game session not found"]
                      /\ h.gs = game_states
                      /\ \A a \in Attempts :
                            LET r == SolvePuzzleOf(game_states, s, p, a)
                            IN /\ r.resp = [code |-> 404,
                                            error |-> "Game session not found"]
                               /\ r.gs = game_states
    /\ \A s \in Sessions, p \in RequestPuzzleIds \ PuzzleIds :
          LET h == GetHintOf(game_states, s, p)
          IN /\ h.resp = [code |-> 404, error |-> "Puzzle not found"]
             /\ h.gs = game_states
             /\ \A a \in Attempts :
                   LET r == SolvePuzzleOf(game_states, s, p, a)
                   IN /\ r.resp = [code |-> 404, error |-> "Puzzle not found"]
                      /\ r.gs = game_states

\* C13 witness: a request for a puzzle outside the registry has been answered
\* in a map that holds a session, and a session id is still outside the map.
C13_Witness ==
    /\ resp = [code |-> 404, error |-> "Puzzle not found"]
    /\ Sessions # {}
    /\ RequestSessionIds \ Sessions # {}

\* C14: once the elapsed time of a session has reached the time limit, no
\* solve_puzzle on it succeeds: none is answered with success, and none sets a
\* solved flag, completed or success.
C14_NoSolveAfterTimeLimit ==
    \A s \in Sessions, p \in PuzzleIds, a \in Attempts :
       Elapsed(s) >= LimitTicks =>
          LET r == SolvePuzzleOf(game_states, s, p, a)
          IN /\ ~("success" \in DOMAIN r.resp /\ r.resp.success)
             /\ r.gs = game_states

\* C15: every get_game_state response that reports time_remaining = 0 reports
\* completed = true.
C15_ZeroRemainingIsCompleted ==
    ("time_remaining" \in DOMAIN resp /\ resp.time_remaining = 0) => resp.completed

\* the response to a text that does not match
Incorrect ==
    [code |-> 200, success |-> FALSE, message |-> <<"Incorrect solution. Try again.">>]

\* C16: solve_puzzle on an unsolved puzzle other than the door, in a session
\* that is not completed, with a text that differs from the solution by more
\* than letter case, answers success = false and leaves the whole map, and so
\* the whole session record, as it is.
C16_MismatchChangesNothing ==
    \A s \in Sessions, p \in PuzzleIds \ {"door"}, a \in Attempts :
       (/\ ~game_states[s].completed
        /\ ~game_states[s].puzzles[p].solved
        /\ ~EqualUpToCase(a, Solution[p])) =>
          LET r == SolvePuzzleOf(game_states, s, p, a)
          IN /\ r.resp = Incorrect
             /\ r.gs = game_states

\* C16 witness: a text that does not match has been answered, in a session
\* that is not completed and has a puzzle solved and a puzzle unsolved.
C16_Witness ==
    /\ resp = Incorrect
    /\ \E s \in Sessions :
          /\ ~game_states[s].completed
          /\ game_states[s].puzzles["safe"].solved
          /\ ~game_states[s].puzzles["computer"].solved

\* C17: get_hint changes nothing in the session record but hints_used, which
\* it raises by one, and it does so in a completed session as in any other.
C17_HintTouchesOnlyCounter ==
    \A s \in Sessions, p \in PuzzleIds :
       LET r == GetHintOf(game_states, s, p)
       IN /\ r.resp.code = 200
          /\ r.resp.hints_used = game_states[s].hints_used + 1
          /\ r.gs = [game_states EXCEPT ![s].hints_used = @ + 1]

\* C17 witness: get_hint has answered in the only session, which is completed
\* and has counted the hint.
C17_Witness ==
    /\ "hint" \in DOMAIN resp
    /\ \E s \in Sessions :
          /\ Sessions = {s}
          /\ game_states[s].completed
          /\ game_states[s].hints_used = resp.hints_used
          /\ resp.hints_used >= 1

\* the solved flags, the found flags and hints_used of a get_game_state response
Flags(view) ==
    [solved     |-> [k \in PuzzleIds |-> view.puzzles[k].solved],
     found      |-> [k \in ItemIds |-> view.items[k].found],
     hints_used |-> view.hints_used]

\* C18: two get_game_state calls on a session, now and at the same or a later
\* instant, with no other request in between, report the same solved flags,
\* found flags and hints_used, also when the first call completes the session
\* on timeout.
C18_RepeatedViewSameFlags ==
    \A s \in Sessions, t \in TimePoints :
       now <= t =>
          LET first  == GetGameStateOf(game_states, s, now)
              second == GetGameStateOf(first.gs, s, t)
          IN Flags(first.resp) = Flags(second.resp)

\* C18 witness: get_game_state has completed a session on timeout, a puzzle of
\* which is solved, and the call repeated now gives the response again.
C18_Witness ==
    /\ "puzzles" \in DOMAIN resp
    /\ resp.completed /\ ~resp.success
    /\ resp.puzzles["safe"].solved
    /\ \E s \in Sessions :
          /\ game_states[s].completed
          /\ GetGameStateOf(game_states, s, now).resp = resp

\* C19: between requests, in every session, an item is found exactly when the
\* puzzle at its location is solved.
C19_FoundIffLocationSolved ==
    \A s \in Sessions, k \in ItemIds :
       game_states[s].items[k].found <=> game_states[s].puzzles[ItemLocation[k]].solved

\* C19 witness: the bookshelf is solved and the note found, the safe is not
\* solved and the key not found.
C19_Witness ==
    \E s \in Sessions :
       /\ game_states[s].puzzles["bookshelf"].solved /\ game_states[s].items["note"].found
       /\ ~game_states[s].puzzles["safe"].solved /\ ~game_states[s].items["key"].found

\* C20: between requests, in every session, success is true exactly when the
\* door is solved, success implies completed, and a session that is completed
\* without success carries the success = False that only the timeout branch
\* of get_game_state writes, and has used up its time.
C20_SuccessIffDoor ==
    \A s \in Sessions :
       LET state == game_states[s]
       IN /\ SuccessOf(state) <=> state.puzzles["door"].solved
          /\ SuccessOf(state) => state.completed
          /\ (state.completed /\ ~SuccessOf(state)) =>
                /\ "success" \in DOMAIN state
                /\ Elapsed(s) >= LimitTicks

\* C20 witness: one session has ended with the door open, another on timeout.
C20_Witness ==
    \E s, o \in Sessions :
       /\ game_states[s].completed /\ SuccessOf(game_states[s])
       /\ game_states[s].puzzles["door"].solved
       /\ game_states[o].completed /\ ~SuccessOf(game_states[o])
       /\ "success" \in DOMAIN game_states[o]

====
